---- MODULE Spec2Model ----
(***************************************************************************)
(* Model of snake_game.py: Config, Snake, Food, GameManager and the main   *)
(* loop.  Positions are pixel vectors <<x, y>> as in the code              *)
(* (pygame.Vector2), the high-score file is a sequence of characters.      *)
(***************************************************************************)
EXTENDS Integers, Sequences, FiniteSets, TLC

(* ---------------- bounds of the model ---------------- *)
\* Config.SCREEN_WIDTH / SCREEN_HEIGHT, shrunk from 800 x 600 to a 4 x 2 board
SCREEN_WIDTH == 80
SCREEN_HEIGHT == 40
\* the model follows a round until this many foods were eaten
MaxScore == 4
\* longest content of highscore.txt the program is started on
MaxContentLen == 2

(* ---------------- Config ---------------- *)
SNAKE_SIZE == 20
FOOD_SIZE == 20
\* Config.SCREEN_WIDTH / SCREEN_HEIGHT as the program sets them (a 40 x 30 board)
FULL_SCREEN_WIDTH == 800
FULL_SCREEN_HEIGHT == 600

VARIABLES
    snake,       \* GameManager.snake: [body, direction, next_direction, growing]
    food,        \* GameManager.food.position
    score,       \* GameManager.score
    high_score,  \* GameManager.high_score
    game_over,   \* GameManager.game_over
    paused,      \* GameManager.paused
    game_state,  \* GameManager.game_state: "start" or "playing"
    file,        \* highscore.txt: [exists, readable, content]
    loop         \* the process: "stopped" (not started), "running" (in the main
                 \* loop), "exited", "crashed" (ended by an uncaught exception),
                 \* "hung" (inside a call that never returns)

vars == <<snake, food, score, high_score, game_over, paused, game_state, file, loop>>

(* ---------------- helpers ---------------- *)
Range(s) == {s[i] : i \in 1..Len(s)}

\* pygame.Vector2 addition
VAdd(a, b) == <<a[1] + b[1], a[2] + b[2]>>

\* the four vectors handle_events appends to the queue
DirUp == <<0, 0 - SNAKE_SIZE>>
DirDown == <<0, SNAKE_SIZE>>
DirLeft == <<0 - SNAKE_SIZE, 0>>
DirRight == <<SNAKE_SIZE, 0>>

(* ---------------- high-score file ---------------- *)
DigitChars == <<"0", "1", "2", "3", "4", "5", "6", "7", "8", "9">>
Whitespace == {" ", "\n"}

\* characters str.isdigit() accepts and int() rejects; "sup2" stands for the
\* one character SUPERSCRIPT TWO (U+00B2)
OtherDigitChars == {"sup2"}

DigitValue(c) == (CHOOSE i \in 1..10 : DigitChars[i] = c) - 1

\* str.isdigit(): non-empty and every character a digit
IsDigit(s) ==
    Len(s) > 0 /\ \A i \in 1..Len(s) : s[i] \in Range(DigitChars) \cup OtherDigitChars

\* int(content) raises ValueError: some character is not a decimal digit
IntRaises(s) == \E i \in 1..Len(s) : s[i] \notin Range(DigitChars)

RECURSIVE StripLeft(_)
StripLeft(s) == IF s # <<>> /\ Head(s) \in Whitespace THEN StripLeft(Tail(s)) ELSE s

RECURSIVE StripRight(_)
StripRight(s) ==
    IF s # <<>> /\ s[Len(s)] \in Whitespace
    THEN StripRight(SubSeq(s, 1, Len(s) - 1))
    ELSE s

\* str.strip()
Strip(s) == StripRight(StripLeft(s))

\* int(content) for a string of decimal digits
RECURSIVE ParseInt(_)
ParseInt(s) ==
    IF s = <<>> THEN 0
    ELSE 10 * ParseInt(SubSeq(s, 1, Len(s) - 1)) + DigitValue(s[Len(s)])

\* str(n) for n >= 0
RECURSIVE Str(_)
Str(n) == IF n < 10 THEN <<DigitChars[n + 1]>> ELSE Str(n \div 10) \o <<DigitChars[(n % 10) + 1]>>

\* GameManager.load_high_score ends with an exception: open() of a file that
\* exists and cannot be read, or int() of a string isdigit() accepted
LoadRaises(f) ==
    f.exists /\ (~f.readable \/ (IsDigit(Strip(f.content)) /\ IntRaises(Strip(f.content))))

\* GameManager.load_high_score, the value it returns when it returns
LoadHighScore(f) ==
    IF f.exists /\ IsDigit(Strip(f.content)) THEN ParseInt(Strip(f.content)) ELSE 0

\* variant: the file is opened for appending
SaveHighScoreAppends(hs) ==
    [exists |-> TRUE, readable |-> TRUE, content |-> file.content \o Str(hs)]

\* GameManager.save_high_score: open(..., "w") replaces the whole content
SaveHighScore(hs) == [exists |-> TRUE, readable |-> TRUE, content |-> Str(hs)]

\* content of highscore.txt when the program starts: an earlier record of 3,
\* followed by a newline
InitialFiles == { [exists |-> TRUE, readable |-> TRUE, content |-> <<"3", "\n">>] }

(* ---------------- Snake ---------------- *)
\* Snake.__init__, for a Config with screen size w x h
SnakeAt(w, h) ==
    [ body |-> << <<w \div 2, h \div 2>> >>,
      direction |-> DirRight,
      next_direction |-> <<>>,
      growing |-> FALSE ]

\* Snake.__init__ on the board of the model
NewSnake == SnakeAt(SCREEN_WIDTH, SCREEN_HEIGHT)

\* variant: the reversal test left out
AcceptsAny(dir, nd) == TRUE

\* the reversal test of Snake.move, line 40
Accepts(dir, nd) == nd[1] # 0 - dir[1] /\ nd[2] # 0 - dir[2]

\* variant: takes the newest queued direction (pop instead of popleft)
MoveNewestFirst(s) ==
    LET n == Len(s.next_direction)
        dir == IF n > 0 /\ Accepts(s.direction, s.next_direction[n])
               THEN s.next_direction[n]
               ELSE s.direction
        q == IF n > 0 THEN SubSeq(s.next_direction, 1, n - 1) ELSE s.next_direction
        grown == <<VAdd(s.body[1], dir)>> \o s.body
    IN  [ body |-> IF ~s.growing THEN SubSeq(grown, 1, Len(grown) - 1) ELSE grown,
          direction |-> dir,
          next_direction |-> q,
          growing |-> FALSE ]

\* variant: the tail is never removed
MoveNeverPops(s) ==
    LET dir == IF s.next_direction # <<>> /\ Accepts(s.direction, Head(s.next_direction))
               THEN Head(s.next_direction)
               ELSE s.direction
        q == IF s.next_direction # <<>> THEN Tail(s.next_direction) ELSE s.next_direction
    IN  [ body |-> <<VAdd(s.body[1], dir)>> \o s.body,
          direction |-> dir,
          next_direction |-> q,
          growing |-> FALSE ]

\* variant: the grow flag is not reset after growing
MoveKeepsGrowing(s) ==
    LET dir == IF s.next_direction # <<>> /\ Accepts(s.direction, Head(s.next_direction))
               THEN Head(s.next_direction)
               ELSE s.direction
        q == IF s.next_direction # <<>> THEN Tail(s.next_direction) ELSE s.next_direction
        grown == <<VAdd(s.body[1], dir)>> \o s.body
    IN  [ body |-> IF ~s.growing THEN SubSeq(grown, 1, Len(grown) - 1) ELSE grown,
          direction |-> dir,
          next_direction |-> q,
          growing |-> s.growing ]

\* Snake.move
Move(s) ==
    LET dir == IF s.next_direction # <<>> /\ Accepts(s.direction, Head(s.next_direction))
               THEN Head(s.next_direction)
               ELSE s.direction
        q == IF s.next_direction # <<>> THEN Tail(s.next_direction) ELSE s.next_direction
        grown == <<VAdd(s.body[1], dir)>> \o s.body
    IN  [ body |-> IF ~s.growing THEN SubSeq(grown, 1, Len(grown) - 1) ELSE grown,
          direction |-> dir,
          next_direction |-> q,
          growing |-> FALSE ]

\* Snake.grow
Grow(s) == [s EXCEPT !.growing = TRUE]

\* variant: wall test with > instead of >=
CheckCollisionOffByOne(s) ==
    \/ s.body[1][1] < 0 \/ s.body[1][1] > SCREEN_WIDTH
    \/ s.body[1][2] < 0 \/ s.body[1][2] > SCREEN_HEIGHT
    \/ s.body[1] \in Range(Tail(s.body))

\* variant: the self-collision test left out
CheckCollisionWallsOnly(s) ==
    \/ s.body[1][1] < 0 \/ s.body[1][1] >= SCREEN_WIDTH
    \/ s.body[1][2] < 0 \/ s.body[1][2] >= SCREEN_HEIGHT

\* Snake.check_collision, for a Config with screen size w x h
CheckCollisionOn(s, w, h) ==
    \/ s.body[1][1] < 0 \/ s.body[1][1] >= w
    \/ s.body[1][2] < 0 \/ s.body[1][2] >= h
    \/ s.body[1] \in Range(Tail(s.body))

\* Snake.check_collision on the board of the model
CheckCollision(s) == CheckCollisionOn(s, SCREEN_WIDTH, SCREEN_HEIGHT)

(* ---------------- Food ---------------- *)
\* the positions random.randint can produce in Food.generate_position
FoodCandidates ==
    { <<i * FOOD_SIZE, j * FOOD_SIZE>> :
        i \in 0..((SCREEN_WIDTH - FOOD_SIZE) \div FOOD_SIZE),
        j \in 0..((SCREEN_HEIGHT - FOOD_SIZE) \div FOOD_SIZE) }

\* variant: the overlap test left out
GeneratePositionAnywhere(snake_body) == FoodCandidates

\* Food.generate_position: the positions the sampling loop can return
GeneratePosition(snake_body) == {p \in FoodCandidates : p \notin Range(snake_body)}

(* ---------------- GameManager ---------------- *)
Init ==
    /\ snake = NewSnake
    /\ food \in GeneratePosition(NewSnake.body)
    /\ score = 0
    /\ file \in InitialFiles
    /\ high_score = LoadHighScore(file)
    /\ game_over = FALSE
    /\ paused = FALSE
    /\ game_state = "start"
    /\ loop = "running"

\* variant: the score is not reset
ResetGameKeepsScore ==
    /\ snake' = NewSnake
    /\ food' \in GeneratePosition(NewSnake.body)
    /\ score' = score
    /\ game_over' = FALSE

\* GameManager.reset_game
ResetGame ==
    /\ snake' = NewSnake
    /\ food' \in GeneratePosition(NewSnake.body)
    /\ score' = 0
    /\ game_over' = FALSE

\* variant: the paused flag is not consulted
UpdateActiveIgnoresPause == game_state = "playing" /\ ~game_over

\* the condition of GameManager.update, line 131
UpdateActive == game_state = "playing" /\ ~paused /\ ~game_over

\* variant: compares the tail instead of the head
EatsTail(s) == s.body[Len(s.body)] = food

\* the food test of GameManager.update, line 135
Eats(s) == s.body[1] = food

\* variant: the comparison is inverted
NewRecordInverted(sc, hs) == sc < hs

\* variant: a tie counts as a record
NewRecordOrTie(sc, hs) == sc >= hs

\* the record test of GameManager.update, line 143
NewRecord(sc, hs) == sc > hs

\* the body of GameManager.update
UpdateBody ==
    LET moved == Move(snake)
        ate == Eats(moved)
        s2 == IF ate THEN Grow(moved) ELSE moved
        sc == IF ate THEN score + 1 ELSE score
    IN  /\ snake' = s2
        /\ IF ate THEN food' \in GeneratePosition(moved.body) ELSE food' = food
        /\ score' = sc
        /\ IF CheckCollision(s2)
           THEN /\ game_over' = TRUE
                /\ IF NewRecord(sc, high_score)
                   THEN high_score' = sc /\ file' = SaveHighScore(sc)
                   ELSE UNCHANGED <<high_score, file>>
           ELSE UNCHANGED <<game_over, high_score, file>>
        /\ UNCHANGED <<paused, game_state>>

\* GameManager.update
GameUpdate ==
    IF UpdateActive
    THEN UpdateBody
    ELSE UNCHANGED <<snake, food, score, high_score, game_over, paused, game_state, file>>

\* the model follows a round up to MaxScore foods
WithinBound == score' <= MaxScore

\* main loop: update() of an iteration whose handle_events() returned True
Update ==
    /\ loop = "running"
    /\ GameUpdate
    /\ WithinBound
    /\ loop' = loop

\* main loop: handle_events() returned False; update() and draw() of that
\* iteration still run, then the loop ends
LastIteration ==
    /\ GameUpdate
    /\ WithinBound
    /\ loop' = "exited"

(* ---------------- input ---------------- *)
Keys == {"K_SPACE", "K_q", "K_r", "K_p", "K_w", "K_UP", "K_s", "K_DOWN",
         "K_a", "K_LEFT", "K_d", "K_RIGHT", "K_x"}

\* the vector a key appends, lines 214-225
KeyDirection(k) ==
    CASE k \in {"K_w", "K_UP"} -> DirUp
      [] k \in {"K_s", "K_DOWN"} -> DirDown
      [] k \in {"K_a", "K_LEFT"} -> DirLeft
      [] k \in {"K_d", "K_RIGHT"} -> DirRight

DirectionKeys == {"K_w", "K_UP", "K_s", "K_DOWN", "K_a", "K_LEFT", "K_d", "K_RIGHT"}

\* variant: off by one, lets a third entry in
QueueHasRoomOffByOne(q) == Len(q) <= 2

\* the queue test of handle_events, lines 215, 218, 221, 224
QueueHasRoom(q) == Len(q) < 2

\* variant: the game-over controls apply during the round too
RoundOverControlsAlways == TRUE

\* the test of line 203: the game-over controls apply
RoundOverControls == game_over

\* variant: direction keys are read while paused
ReadsDirectionsAlways == TRUE

\* the test of line 212: direction keys are read
ReadsDirections == ~paused

\* handle_events, one KEYDOWN event
KeyDown(k) ==
    /\ loop = "running"
    /\ IF game_state = "start"
       THEN IF k = "K_SPACE"
            THEN /\ ResetGame
                 /\ game_state' = "playing"
                 /\ UNCHANGED <<high_score, paused, file, loop>>
            ELSE IF k = "K_q"
            THEN LastIteration
            ELSE UNCHANGED vars
       ELSE IF RoundOverControls
            THEN IF k = "K_r"
                 THEN /\ ResetGame
                      /\ game_state' = "playing"
                      /\ UNCHANGED <<high_score, paused, file, loop>>
                 ELSE IF k = "K_q"
                 THEN /\ game_state' = "start"
                      /\ UNCHANGED <<snake, food, score, high_score, game_over, paused, file, loop>>
                 ELSE UNCHANGED vars
            ELSE IF k = "K_p"
            THEN /\ paused' = ~paused
                 /\ UNCHANGED <<snake, food, score, high_score, game_over, game_state, file, loop>>
            ELSE IF ReadsDirections /\ k \in DirectionKeys /\ QueueHasRoom(snake.next_direction)
            THEN /\ snake' = [snake EXCEPT !.next_direction = Append(@, KeyDirection(k))]
                 /\ UNCHANGED <<food, score, high_score, game_over, paused, game_state, file, loop>>
            ELSE UNCHANGED vars

\* handle_events, a pygame.QUIT event
QuitEvent ==
    /\ loop = "running"
    /\ LastIteration

Next ==
    \/ \E k \in Keys : KeyDown(k)
    \/ QuitEvent
    \/ Update

Spec == Init /\ [][Next]_vars

(* ---------------- the snake alone, on the 40 x 30 board ---------------- *)
\* a round just started on the 800 x 600 screen; no command ever arrives
InitSnake ==
    /\ snake = SnakeAt(FULL_SCREEN_WIDTH, FULL_SCREEN_HEIGHT)
    /\ food = <<0, 0>>
    /\ score = 0
    /\ file \in InitialFiles
    /\ high_score = LoadHighScore(file)
    /\ game_over = FALSE
    /\ paused = FALSE
    /\ game_state = "playing"
    /\ loop = "running"

\* update() with the food elsewhere: Snake.move, then Snake.check_collision
SnakeMove ==
    /\ UpdateActive
    /\ snake' = Move(snake)
    /\ game_over' = CheckCollisionOn(snake', FULL_SCREEN_WIDTH, FULL_SCREEN_HEIGHT)
    /\ UNCHANGED <<food, score, high_score, paused, game_state, file, loop>>

\* the food was under the head the last move reached: Snake.grow and
\* score += 1 (lines 137-138)
SnakeEat ==
    /\ UpdateActive
    /\ snake.growing = FALSE
    /\ snake.body[1] # SnakeAt(FULL_SCREEN_WIDTH, FULL_SCREEN_HEIGHT).body[1]
    /\ score < MaxScore
    /\ snake' = Grow(snake)
    /\ score' = score + 1
    /\ UNCHANGED <<food, high_score, game_over, paused, game_state, file, loop>>

NextSnake == SnakeMove \/ SnakeEat

SpecSnake == InitSnake /\ [][NextSnake]_vars

(* ---------------- a round played until the board is full ---------------- *)
\* the keys that start a round and steer the snake
FillKeys == {"K_SPACE", "K_UP", "K_DOWN", "K_LEFT", "K_RIGHT"}

\* main loop: update() of an iteration, however long the snake
FillUpdate ==
    /\ loop = "running"
    /\ GameUpdate
    /\ loop' = loop

\* Food.generate_position finds every candidate in snake_body: its while
\* loop never ends
RespawnHangs(snake_body) == GeneratePosition(snake_body) = {}

\* GameManager.update: the snake moved onto the food and respawn() does not
\* return; nothing after snake.move() is assigned
UpdateHang ==
    /\ loop = "running"
    /\ UpdateActive
    /\ Eats(Move(snake))
    /\ RespawnHangs(Move(snake).body)
    /\ snake' = Move(snake)
    /\ loop' = "hung"
    /\ UNCHANGED <<food, score, high_score, game_over, paused, game_state, file>>

NextFill ==
    \/ \E k \in FillKeys : KeyDown(k)
    \/ FillUpdate
    \/ UpdateHang

SpecFill == Init /\ [][NextFill]_vars

(* ---------------- rounds played from different stores ---------------- *)
\* highscore.txt at program start: missing, not a number, a stored 0
StoreStartFiles ==
    { [exists |-> FALSE, readable |-> FALSE, content |-> <<>>],
      [exists |-> TRUE, readable |-> TRUE, content |-> <<"x">>],
      [exists |-> TRUE, readable |-> TRUE, content |-> <<"0", "\n">>] }

\* GameManager.__init__ on one of these files
InitStore ==
    /\ snake = NewSnake
    /\ food \in GeneratePosition(NewSnake.body)
    /\ score = 0
    /\ file \in StoreStartFiles
    /\ high_score = LoadHighScore(file)
    /\ game_over = FALSE
    /\ paused = FALSE
    /\ game_state = "start"
    /\ loop = "running"

\* the keys that start a round, steer the snake and start the next round
StoreKeys == {"K_SPACE", "K_r", "K_UP", "K_DOWN", "K_LEFT", "K_RIGHT"}

NextStore ==
    \/ \E k \in StoreKeys : KeyDown(k)
    \/ Update

SpecStore == InitStore /\ [][NextStore]_vars

(* ---------------- starting the program on any stored file ---------------- *)
\* the characters a stored file is made of in the model
FileChars == {"0", "7", " ", "\n", "x", "-", "sup2"}

\* the contents of up to MaxContentLen characters
FileContents == UNION {[1..n -> FileChars] : n \in 0..MaxContentLen}

\* the states highscore.txt can be in when the program starts
StoredFiles ==
    {[exists |-> FALSE, readable |-> FALSE, content |-> <<>>]}
    \cup {[exists |-> TRUE, readable |-> r, content |-> c] :
             r \in BOOLEAN, c \in FileContents}

\* the program is not running; highscore.txt is whatever was left on disk
InitLoad ==
    /\ file \in StoredFiles
    /\ loop = "stopped"
    /\ snake = NewSnake
    /\ food = <<0, 0>>
    /\ score = 0
    /\ high_score = 0
    /\ game_over = FALSE
    /\ paused = FALSE
    /\ game_state = "start"

\* the program starts: GameManager.__init__, which calls load_high_score
Launch ==
    /\ loop = "stopped"
    /\ IF LoadRaises(file)
       THEN /\ loop' = "crashed"
            /\ UNCHANGED <<snake, food, score, high_score, game_over, paused,
                           game_state, file>>
       ELSE /\ snake' = NewSnake
            /\ food' \in GeneratePosition(NewSnake.body)
            /\ score' = 0
            /\ high_score' = LoadHighScore(file)
            /\ game_over' = FALSE
            /\ paused' = FALSE
            /\ game_state' = "start"
            /\ loop' = "running"
            /\ file' = file

NextLoad == Launch \/ QuitEvent

SpecLoad == InitLoad /\ [][NextLoad]_vars

(* ======================= properties ======================= *)
\* the exact opposite of a heading
Opposite(d) == <<0 - d[1], 0 - d[2]>>

\* the state in which update() is documented to act
RoundRunning == game_state = "playing" /\ paused = FALSE /\ game_over = FALSE

\* x, y of a cell lie on the board
OnBoard(c) == c[1] >= 0 /\ c[1] < SCREEN_WIDTH /\ c[2] >= 0 /\ c[2] < SCREEN_HEIGHT

\* C1: update() called while the state is not Playing, or the game is paused,
\* or the round is over, leaves snake (body, heading, queue, grow flag), food,
\* score, high score, paused flag, game-over flag and game state unchanged.
C1_UpdateNoOp ==
    [][(~RoundRunning /\ GameUpdate) =>
        UNCHANGED <<snake, food, score, high_score, paused, game_over, game_state>>]_vars

\* update() has just run (last iteration of the main loop) while paused
C1_Witness ==
    loop = "exited" /\ game_state = "playing" /\ paused /\ Len(snake.body) >= 2

\* C2: an update() that advances the snake sets game-over iff, after the
\* advance, the head is outside the board or equals another cell of the body.
C2_GameOverIffCollision ==
    [][(RoundRunning /\ GameUpdate) =>
        (game_over' <=>
            \/ snake'.body[1][1] < 0 \/ snake'.body[1][1] >= SCREEN_WIDTH
            \/ snake'.body[1][2] < 0 \/ snake'.body[1][2] >= SCREEN_HEIGHT
            \/ \E i \in 2..Len(snake'.body) : snake'.body[i] = snake'.body[1])]_vars

\* a round ended by the head running into the body, on the board
C2_Witness ==
    /\ game_over
    /\ OnBoard(snake.body[1])
    /\ \E i \in 2..Len(snake.body) : snake.body[i] = snake.body[1]

\* a round ended by the head on the last column still counted as on the board
C2_WallWitness == game_over /\ snake.body[1][1] >= SCREEN_WIDTH

\* C3: while the round is not over no cell appears twice in the snake body.
C3_NoDuplicateCell ==
    game_over = FALSE =>
        \A i, j \in 1..Len(snake.body) : i # j => snake.body[i] # snake.body[j]

\* a snake long enough to bite itself, still alive after growing
C3_Witness == game_over = FALSE /\ game_state = "playing" /\ Len(snake.body) >= 5

\* C4: the heading after an advance is never the opposite of the heading
\* before it; a queued direction opposite to the heading is discarded and the
\* heading stays as it was.
C4_NoReversal ==
    [][(RoundRunning /\ GameUpdate) =>
        /\ snake'.direction # Opposite(snake.direction)
        /\ (snake.next_direction # <<>>
              /\ Head(snake.next_direction) = Opposite(snake.direction))
           => snake'.direction = snake.direction]_vars

\* heading Right with [Left, Left] queued: after the advance the heading is
\* Right and one Left is still queued
C4_Witness ==
    /\ loop = "exited" /\ RoundRunning
    /\ snake.direction = DirRight
    /\ snake.next_direction = <<DirLeft>>
    /\ snake.body = << <<SCREEN_WIDTH \div 2 + SNAKE_SIZE, SCREEN_HEIGHT \div 2>> >>

\* C5: the pending queue never holds more than 2 entries; a direction command
\* forwarded to the snake is appended iff the queue length is below 2 and is
\* otherwise dropped, leaving everything unchanged.
\* (A command never moves the snake, so only the steps that keep the body are
\* compared with KeyDown; a step that changes nothing satisfies either case.)
C5_QueueBound ==
    /\ Len(snake.next_direction) <= 2
    /\ [][/\ Len(snake'.next_direction) <= 2
          /\ (RoundRunning /\ snake'.body = snake.body /\ vars' # vars) =>
                \A k \in DirectionKeys : KeyDown(k) =>
                    IF Len(snake.next_direction) < 2
                    THEN snake'.next_direction =
                            Append(snake.next_direction, KeyDirection(k))
                    ELSE UNCHANGED vars]_vars

\* a full queue in a running round: the next direction command is dropped
C5_Witness == RoundRunning /\ loop = "running" /\ Len(snake.next_direction) = 2

\* C6: each advance removes exactly the oldest queued direction (if any) and
\* keeps the rest in order; the heading becomes that entry unless it is the
\* opposite of the heading before; with an empty queue the heading is unchanged.
C6_ConsumesOldest ==
    [][(RoundRunning /\ GameUpdate) =>
        IF snake.next_direction # <<>>
        THEN /\ snake'.next_direction = Tail(snake.next_direction)
             /\ snake'.direction =
                   IF Head(snake.next_direction) # Opposite(snake.direction)
                   THEN Head(snake.next_direction)
                   ELSE snake.direction
        ELSE /\ snake'.next_direction = <<>>
             /\ snake'.direction = snake.direction]_vars

\* an advance took Up from [Up, Left]: Left is still queued and the heading
\* is Up
C6_Witness ==
    /\ loop = "exited" /\ RoundRunning
    /\ snake.direction = DirUp
    /\ snake.next_direction = <<DirLeft>>

\* C7: advance() prepends head + heading, keeps the length when the grow flag
\* is clear and lengthens the body by exactly 1 when it is set, and leaves the
\* grow flag false, so a requested growth happens on the next advance only.
C7_AdvanceLength ==
    LET m == Move(snake)
        k == IF snake.growing THEN Len(snake.body) ELSE Len(snake.body) - 1
    IN  /\ m.body[1] = VAdd(snake.body[1], m.direction)
        /\ Len(m.body) = k + 1
        /\ \A i \in 1..k : m.body[i + 1] = snake.body[i]
        /\ m.growing = FALSE
        /\ Len(Move(m).body) = Len(m.body)

\* a snake of three cells with a growth pending
C7_Witness ==
    /\ RoundRunning /\ snake.growing /\ Len(snake.body) = 3
    /\ Len(Move(snake).body) = 4

\* C8: every food placement (construction, reset, respawn after eating) yields
\* a cell inside the board that is not in the snake body at that moment.
\* (The implication step => placement is written placement \/ ~step.)
C8_FoodPlacement ==
    /\ (OnBoard(food) /\ food \notin Range(snake.body))
    /\ [][\/ (OnBoard(food') /\ food'[1] + FOOD_SIZE <= SCREEN_WIDTH
                /\ food'[2] + FOOD_SIZE <= SCREEN_HEIGHT
                /\ food' \notin Range(snake'.body))
          \/ ~((\E k \in {"K_SPACE", "K_r"} : KeyDown(k)) \/ (RoundRunning /\ GameUpdate))]_vars

\* food was just eaten by a snake of three cells and placed again
C8_Witness ==
    /\ loop = "exited" /\ RoundRunning
    /\ snake.growing /\ Len(snake.body) = 3

\* C9: in an update() that advances the snake, a new head on the food cell
\* raises the score by exactly 1, relocates the food off the new body and sets
\* the grow flag; a new head elsewhere leaves score and food unchanged.
C9_EatOncePerUpdate ==
    [][(RoundRunning /\ GameUpdate) =>
        LET m == Move(snake)
        IN  IF m.body[1] = food
            THEN /\ score' = score + 1
                 /\ food' \notin Range(m.body)
                 /\ food' # food
                 /\ snake'.growing = TRUE
                 /\ snake'.body = m.body
            ELSE /\ score' = score
                 /\ food' = food
                 /\ snake'.growing = FALSE]_vars

\* the last update() ate the second food
C9_Witness ==
    /\ loop = "exited" /\ RoundRunning
    /\ snake.growing /\ score = 2 /\ Len(snake.body) = 2

\* C10: the high score is saved iff at the transition to game-over the score is
\* strictly greater than the high score; it then becomes the score and a load
\* returns it; at every other step high score and stored value are unchanged.
C10_SaveIffRecord ==
    [][IF game_over = FALSE /\ game_over' = TRUE /\ score' > high_score
       THEN /\ high_score' = score'
            /\ file' # file
            /\ file'.exists
            /\ LoadHighScore(file') = score'
       ELSE UNCHANGED <<high_score, file>>]_vars

\* a round that ended with a new record of 4, stored as "4"
C10_Witness ==
    /\ game_over /\ score = 4 /\ high_score = 4
    /\ file = [exists |-> TRUE, readable |-> TRUE, content |-> <<"4">>]

\* a round that ended on the stored high score: nothing is saved
C10_TieWitness ==
    /\ game_over /\ score = 3 /\ high_score = 3
    /\ file = [exists |-> TRUE, readable |-> TRUE, content |-> <<"3", "\n">>]

\* C11: the start command in Start, and the restart command after game-over,
\* lead to Playing with a fresh snake (one cell at the board centre, heading
\* Right, empty queue, grow flag false), food off that snake, score 0, and the
\* game-over and paused flags false.
C11_StartAndRestart ==
    [][\A k \in {"K_SPACE", "K_r"} :
        ( /\ \/ (k = "K_SPACE" /\ game_state = "start")
             \/ (k = "K_r" /\ game_state = "playing" /\ game_over = TRUE)
          /\ KeyDown(k) )
        => /\ game_state' = "playing"
           /\ snake'.body = << <<SCREEN_WIDTH \div 2, SCREEN_HEIGHT \div 2>> >>
           /\ snake'.direction = <<SNAKE_SIZE, 0>>
           /\ snake'.next_direction = <<>>
           /\ snake'.growing = FALSE
           /\ OnBoard(food') /\ food' \notin Range(snake'.body)
           /\ score' = 0
           /\ game_over' = FALSE
           /\ paused' = FALSE]_vars

\* a fresh round after a round that set the record 4
C11_Witness ==
    /\ RoundRunning /\ loop = "running"
    /\ high_score = 4 /\ score = 0
    /\ snake = [ body |-> << <<SCREEN_WIDTH \div 2, SCREEN_HEIGHT \div 2>> >>,
                 direction |-> <<SNAKE_SIZE, 0>>,
                 next_direction |-> <<>>,
                 growing |-> FALSE ]

\* C12: a directional command changes only the pending queue, and only when the
\* state is Playing, not paused and the round not over; otherwise it changes
\* nothing.  The pause command toggles only the paused flag, and only in
\* Playing with the round not over; otherwise it changes nothing.
\* (Each implication KeyDown(k) => effect is written effect \/ ~KeyDown(k); the
\* effect of a directional command is the same for every direction key.)
C12_CommandFrame ==
    [][/\ \/ IF RoundRunning
             THEN /\ snake'.body = snake.body
                  /\ snake'.direction = snake.direction
                  /\ snake'.growing = snake.growing
                  /\ UNCHANGED <<food, score, high_score, game_over, paused,
                                 game_state, file, loop>>
             ELSE UNCHANGED vars
          \/ \A k \in DirectionKeys : ~KeyDown(k)
       /\ \/ IF game_state = "playing" /\ game_over = FALSE
             THEN /\ paused' = ~paused
                  /\ UNCHANGED <<snake, food, score, high_score, game_over,
                                 game_state, file, loop>>
             ELSE UNCHANGED vars
          \/ ~KeyDown("K_p")]_vars

\* a paused round with one direction queued: commands arriving now are ignored
C12_Witness ==
    /\ game_state = "playing" /\ paused /\ game_over = FALSE /\ loop = "running"
    /\ Len(snake.next_direction) = 1

\* C15: the paused flag and the game-over flag are never both true, and the
\* paused flag is false whenever the state is Start.
C15_PausedExcludesOver ==
    /\ ~(paused /\ game_over)
    /\ (game_state = "start" => paused = FALSE)

\* back in the menu after a round that ended
C15_Witness == game_state = "start" /\ game_over /\ paused = FALSE /\ score >= 1

\* a round paused after the snake has grown
C15_PausedWitness == game_state = "playing" /\ paused /\ Len(snake.body) >= 2

\* C16: once a quit command has been handled, update() is not called again:
\* snake, food, score, game-over flag and high score (in memory and stored) at
\* process exit equal their values when the quit command was handled.
C16_QuitStopsSimulation ==
    [][(loop = "running" /\ loop' = "exited") =>
        UNCHANGED <<snake, food, score, game_over, high_score, file>>]_vars

\* C17: start, restart and quit-to-menu leave the high score unchanged; the
\* high score never decreases; it is at least the score whenever the round is
\* over.
C17_HighScoreMonotone ==
    /\ (game_over => high_score >= score)
    /\ [][/\ high_score' >= high_score
          /\ (game_over' => high_score' >= score')
          /\ \A k \in {"K_SPACE", "K_r", "K_q"} :
                (high_score' = high_score) \/ ~KeyDown(k)]_vars

\* a later round still shows the record 4 of an earlier one
C17_Witness == RoundRunning /\ high_score = 4 /\ score = 1 /\ Len(snake.body) = 2

\* C18: the state goes from Playing to Start only by the quit-to-menu command
\* given while the round is over; that command leaves snake, food, score and
\* high score unchanged; the same key in Playing while the round is not over
\* changes nothing.
C18_QuitToMenu ==
    [][/\ (game_state = "playing" /\ game_state' = "start") =>
            /\ game_over = TRUE
            /\ KeyDown("K_q")
            /\ UNCHANGED <<snake, food, score, high_score>>
       /\ (game_state = "playing" /\ game_over = FALSE) =>
            (UNCHANGED vars \/ ~KeyDown("K_q"))]_vars

\* back in the menu with the snake of the round that ended
C18_Witness ==
    /\ game_state = "start" /\ game_over /\ loop = "running"
    /\ Len(snake.body) >= 2

\* C20: body length, plus 1 if the grow flag is set, equals score + 1.
C20_LengthTracksScore ==
    Len(snake.body) + (IF snake.growing THEN 1 ELSE 0) = score + 1

\* three cells and a growth pending, with score 3
C20_Witness == Len(snake.body) = 3 /\ snake.growing /\ score = 3

\* four cells, no growth pending, with score 3
C20_GrownWitness == Len(snake.body) = 4 /\ snake.growing = FALSE /\ score = 3

\* the pixel position of grid cell (x, y)
Cell(x, y) == <<x * SNAKE_SIZE, y * SNAKE_SIZE>>

\* C13 as stated: on the 40 x 30 board the snake starts as the cell (20,15)
\* heading Right; after 3 advances with no input the body is
\* [(23,15),(22,15),(21,15)] and the heading Right; after food is then eaten at
\* the head, the following advance gives a body of length 4.
C13_ThreeAdvancesAsStated ==
    /\ (score = 0 /\ snake.body[1] = Cell(23, 15)) =>
          /\ snake.body = <<Cell(23, 15), Cell(22, 15), Cell(21, 15)>>
          /\ snake.direction = DirRight
    /\ (score = 1 /\ snake.growing = FALSE /\ snake.body[1] = Cell(24, 15)) =>
          Len(snake.body) = 4

\* C13 amended: after 3 advances with no input the body is the single cell
\* (23,15) and the heading Right; after food is then eaten at the head, the
\* following advance gives the body [(24,15),(23,15)] of length 2.
C13_ThreeAdvances ==
    /\ (score = 0 /\ snake.body[1] = Cell(23, 15)) =>
          /\ snake.body = <<Cell(23, 15)>>
          /\ snake.direction = DirRight
    /\ (score = 1 /\ snake.growing = FALSE /\ snake.body[1] = Cell(24, 15)) =>
          snake.body = <<Cell(24, 15), Cell(23, 15)>>

\* the advance after the food was eaten: two cells, head on (24,15)
C13_Witness ==
    /\ score = 1 /\ snake.growing = FALSE
    /\ snake.body = <<Cell(24, 15), Cell(23, 15)>>
    /\ snake.direction = DirRight

\* the ASCII decimal digits
AsciiDigits == {"0", "1", "2", "3", "4", "5", "6", "7", "8", "9"}

\* the number a string of ASCII digits denotes, read from the left
RECURSIVE Decimal(_, _)
Decimal(s, acc) ==
    IF s = <<>> THEN acc
    ELSE Decimal(Tail(s),
                 10 * acc + CHOOSE d \in 0..9 : DigitChars[d + 1] = Head(s))

\* the value the store holds: the integer written in it (surrounding
\* whitespace aside), or 0 when the file is missing, unreadable, empty or not
\* a string of decimal digits
StoredValue(f) ==
    IF /\ f.exists /\ f.readable
       /\ Strip(f.content) # <<>>
       /\ \A i \in 1..Len(Strip(f.content)) : Strip(f.content)[i] \in AsciiDigits
    THEN Decimal(Strip(f.content), 0)
    ELSE 0

\* C14: load() never raises: whatever the stored state (file missing,
\* unreadable, empty, non-numeric, valid digits), the program starts and holds
\* the stored integer when the content is a valid one and 0 otherwise.
C14_LoadNeverRaises ==
    /\ loop # "crashed"
    /\ loop \in {"running", "exited"} => high_score = StoredValue(file)

\* the cases in which load() does return give the value the claim names
C14_LoadValueWhenReturned ==
    loop \in {"running", "exited"} => high_score = StoredValue(file)

\* every cell of the board
BoardCells ==
    {<<x * SNAKE_SIZE, y * SNAKE_SIZE>> :
        x \in 0..((SCREEN_WIDTH \div SNAKE_SIZE) - 1),
        y \in 0..((SCREEN_HEIGHT \div SNAKE_SIZE) - 1)}

\* C19: whenever update() asks for a respawn (a round runs and the advance
\* puts the head on the food), the body it passes leaves a board cell free,
\* so the sampling loop can end.
C19_RespawnHasFreeCell ==
    (loop = "running" /\ RoundRunning /\ Move(snake).body[1] = food)
        => BoardCells \ Range(Move(snake).body) # {}

\* C21: an update() in which food is eaten never ends the round: in every
\* reachable state the food cell is inside the board and not in the snake
\* body, and no update() both raises the score and sets game-over.
C21_EatingNeverEndsRound ==
    /\ [](OnBoard(food) /\ food \notin Range(snake.body))
    /\ [][(RoundRunning /\ GameUpdate /\ score' > score) => game_over' = FALSE]_vars

\* the fourth food was just eaten in the board's left column, the round goes on
C21_Witness ==
    /\ loop = "exited" /\ RoundRunning
    /\ snake.growing /\ score = 4 /\ snake.body[1][1] = 0

\* the larger of board width and board height, in cells
MaxBoardSide ==
    IF SCREEN_WIDTH >= SCREEN_HEIGHT
    THEN SCREEN_WIDTH \div SNAKE_SIZE
    ELSE SCREEN_HEIGHT \div SNAKE_SIZE

\* with no event arriving, every run of at most n calls of update() from snake
\* s and food f sets game-over; each call is GameManager.update, lines 132-142,
\* for every cell the respawn may draw; a respawn with no free cell never
\* returns, and game-over is then never set
RECURSIVE CoastEnds(_, _, _)
CoastEnds(s, f, n) ==
    IF n = 0 THEN FALSE
    ELSE LET moved == Move(s)
             ate == moved.body[1] = f
             s2 == IF ate THEN Grow(moved) ELSE moved
         IN  IF ate /\ GeneratePosition(moved.body) = {} THEN FALSE
             ELSE IF CheckCollision(s2) THEN TRUE
             ELSE IF ate
                  THEN \A f2 \in GeneratePosition(moved.body) : CoastEnds(s2, f2, n - 1)
                  ELSE CoastEnds(s2, f, n - 1)

\* C22: from any state in Playing with the round not over, not paused, the
\* pending queue empty, and no further command arriving, the round reaches
\* game-over within max(board width, board height) calls of update().
C22_CoastReachesGameOver ==
    (loop = "running" /\ RoundRunning /\ snake.next_direction = <<>>)
        => CoastEnds(snake, food, MaxBoardSide)

\* a fresh round on the 40 x 30 board with no input: the round is over exactly
\* when the head, started at column 20, has advanced 20 times
C22_FreshRoundEndsAt20 ==
    game_over <=> snake.body[1] = Cell(40, 15)

\* C23: in every reachable state the in-memory high score is the value a
\* load() of the store would return at that moment, from the load at
\* construction on and across any number of rounds.
C23_MemoryMatchesStore ==
    /\ LoadRaises(file) = FALSE
    /\ high_score = LoadHighScore(file)

\* a later round runs after a record of 2 replaced a store that held no number
C23_Witness ==
    /\ RoundRunning /\ score = 1 /\ high_score = 2
    /\ file = [exists |-> TRUE, readable |-> TRUE, content |-> <<"2">>]

====
